---- MODULE Spec2Model ----
(***************************************************************************)
(* Model of the Blender add-on "Edge Slide by Distance"                    *)
(* (src/operators.py, class MESH_OT_edge_slide_by_distance).               *)
(*                                                                         *)
(* One run of the operator is modelled as a state machine: execute checks  *)
(* the selection, analyze_edge_loop validates or repairs the loop          *)
(* (is_edge_loop, find_edge_loops, build_loop_from_edge), collects the     *)
(* per-edge slide ranges (get_edge_slide_range and its helpers),           *)
(* aggregates them, distance_to_factor turns the requested distance into   *)
(* a factor, and the native transform is called with it.                   *)
(*                                                                         *)
(* Numbers: Python floats are modelled as exact rationals <<n, d>> in      *)
(* lowest terms with d > 0.  Vector lengths are exact: the geometries of   *)
(* the model are chosen so that every length the code computes is an       *)
(* integer.                                                                *)
(***************************************************************************)
EXTENDS Integers, Sequences, FiniteSets, TLC

\* ------------------------------------------------------------- bounds
\* Largest number of selected edges of a run.
MaxSel == 4
\* The requested distance is drawn from -MaxTarget..MaxTarget.
MaxTarget == 2
\* SpecFactor: components of the aggregated pair are n/d with n in 0..MaxNum.
MaxNum == 3
\* SpecFactor: denominators of the aggregated pair and of the target.
MaxDen == 2

\* ---------------------------------------------------------- rationals
Abs(k) == IF k < 0 THEN -k ELSE k

RECURSIVE Gcd(_, _)
Gcd(a, b) == IF b = 0 THEN a ELSE Gcd(b, a % b)

\* The rational n/d (d # 0) in lowest terms with a positive denominator.
Rat(n, d) ==
  LET g == Gcd(Abs(n), Abs(d))
      s == IF d < 0 THEN -1 ELSE 1
  IN  << (s * n) \div g, (s * d) \div g >>

Zero == << 0, 1 >>
One == << 1, 1 >>
MinusOne == << -1, 1 >>
RInt(k) == << k, 1 >>
RAdd(a, b) == Rat(a[1] * b[2] + b[1] * a[2], a[2] * b[2])
RMul(a, b) == Rat(a[1] * b[1], a[2] * b[2])
\* a / b for b # 0.
RDiv(a, b) == Rat(a[1] * b[2], a[2] * b[1])
RLess(a, b) == a[1] * b[2] < b[1] * a[2]
RLeq(a, b) == a[1] * b[2] <= b[1] * a[2]
\* Python's min(a, b) and max(a, b) on numbers.
RMin(a, b) == IF RLess(b, a) THEN b ELSE a
RMax(a, b) == IF RLess(a, b) THEN b ELSE a

RECURSIVE RSum(_)
RSum(s) == IF s = << >> THEN Zero ELSE RAdd(s[1], RSum(Tail(s)))

RECURSIVE RMinSeq(_)
RMinSeq(s) == IF Len(s) = 1 THEN s[1] ELSE RMin(s[1], RMinSeq(Tail(s)))

RECURSIVE RMaxSeq(_)
RMaxSeq(s) == IF Len(s) = 1 THEN s[1] ELSE RMax(s[1], RMaxSeq(Tail(s)))

SeqToSet(s) == { s[i] : i \in 1..Len(s) }

\* ------------------------------------------------------------ vectors
\* mathutils.Vector: <<x, y, z>> with integer components.
VAdd(a, b) == << a[1] + b[1], a[2] + b[2], a[3] + b[3] >>
VSub(a, b) == << a[1] - b[1], a[2] - b[2], a[3] - b[3] >>
\* k / 2, exact (the geometries keep every halved sum even).
Half(k) == CHOOSE h \in -Abs(k)..Abs(k) : 2 * h = k
VHalf(a) == << Half(a[1]), Half(a[2]), Half(a[3]) >>
\* The exact square root of a perfect square.
ISqrt(n) == CHOOSE r \in 0..n : r * r = n
\* Vector.length
Length(a) == ISqrt(a[1] * a[1] + a[2] * a[2] + a[3] * a[3])

\* --------------------------------------------------------------- mesh
(* The host's mesh: a strip of three quads (vertices 1..4 below, 5..8      *)
(* above), a triangle 4-9-8 on its right end and a loose edge 9-10.        *)
(*                                                                         *)
(*      5----6----7----8                                                   *)
(*      | F1 | F2 | F3 | \                                                 *)
(*      |    |    |    |  9 ---- 10                                        *)
(*      1----2----3----4 /                                                 *)
(*                                                                         *)
(* Edges are numbered in bm.edges order; an edge's two vertices are kept   *)
(* as a set, their order (edge.verts) is drawn when the code reads it.     *)
EdgeVerts ==
  << {1, 2}, {2, 3}, {3, 4}, {5, 6}, {6, 7}, {7, 8},
     {1, 5}, {2, 6}, {3, 7}, {4, 8}, {4, 9}, {8, 9}, {9, 10} >>
\* face.verts, in loop order
FaceVerts ==
  << << 1, 2, 6, 5 >>, << 2, 3, 7, 6 >>, << 3, 4, 8, 7 >>, << 4, 9, 8 >> >>

Edges == DOMAIN EdgeVerts
Faces == DOMAIN FaceVerts
Verts == UNION SeqToSet(EdgeVerts)

EdgeOf(vs) == CHOOSE e \in Edges : EdgeVerts[e] = vs
\* The edges around each face: between every two consecutive vertices.
FaceEdgeTable ==
  [ f \in Faces |->
      LET fv == FaceVerts[f]
          n == Len(fv)
      IN  [ i \in 1..n |-> EdgeOf({ fv[i], fv[(i % n) + 1] }) ] ]
\* face.edges, in loop order
FaceEdges(f) == FaceEdgeTable[f]
\* The faces around each edge, in the order of the face list.
LinkFaceTable ==
  [ e \in Edges |->
      SelectSeq([ f \in Faces |-> f ],
                LAMBDA f : e \in SeqToSet(FaceEdgeTable[f])) ]
\* edge.link_faces
link_faces(e) == LinkFaceTable[e]
\* vert.link_edges (the order is the host's: it is drawn when it matters)
link_edges(v) == { e \in Edges : v \in EdgeVerts[e] }
\* edge.other_vert(v)
other_vert(e, v) == CHOOSE w \in EdgeVerts[e] : w # v

\* Vertex positions (vert.co) of the three geometries of the model.
Geometries == { "regular", "skew", "collapsed" }
Columns(g) ==
  CASE g = "regular" -> << 0, 4, 8, 12 >>
    [] g = "skew" -> << 0, 2, 8, 12 >>
    [] g = "collapsed" -> << 0, 0, 0, 4 >>
\* x of the triangle's apex (vertex 9); it lies at half height, y = 3.
Apex(g) == IF g = "collapsed" THEN 4 ELSE 16

VARIABLES
  geom,               \* the mesh geometry (vert.co)
  sel,                \* [e for e in bm.edges if e.select]
  pc,                 \* position in invoke / execute
  selected_edges,     \* analyze_edge_loop: the list analysed
  loops,              \* find_edge_loops: loops
  processed,          \* find_edge_loops: processed
  seed,               \* find_edge_loops: index of the for loop
  loop,               \* build_loop_from_edge: loop
  start_verts,        \* build_loop_from_edge: start_edge.verts as read
  direction,          \* build_loop_from_edge: direction
  current_vert,       \* build_loop_from_edge: current_vert
  chains,             \* history: every chain build_loop_from_edge returned
  measurement_method, \* property read by analyze_edge_loop
  slide_data,         \* execute: slide_data
  distance,           \* property read by execute
  use_clamp,          \* property read by distance_to_factor and execute
  factor,             \* execute: factor
  transform_calls,    \* values bpy.ops.transform.edge_slide was called with
  mesh_moved,         \* whether the native transform moved the mesh
  reports,            \* self.report calls
  result              \* what execute / invoke returned

vars ==
  << geom, sel, pc, selected_edges, loops, processed, seed, loop, start_verts,
     direction, current_vert, chains, measurement_method, slide_data, distance, use_clamp, factor,
     transform_calls, mesh_moved, reports, result >>

co(v) ==
  CASE v \in 1..4 -> << Columns(geom)[v], 0, 0 >>
    [] v \in 5..8 -> << Columns(geom)[v - 4], 6, 0 >>
    [] v = 9 -> << Apex(geom), 3, 0 >>
    [] v = 10 -> << Apex(geom) + 4, 3, 0 >>

\* ------------------------------------------------- per-edge slide range
\* Python's None, where a range or the analysis is expected.
None == << >>
\* Python's None, where an edge is expected.
NoEdge == 0

\* find_opposite_edge_in_face: the first edge of the face, in face.edges
\* order, that is not the edge and shares no vertex with it.
find_opposite_edge_in_face(edge, face) ==
  LET fe == FaceEdges(face)
      opp == { i \in 1..Len(fe) :
                 fe[i] # edge /\ EdgeVerts[fe[i]] \cap EdgeVerts[edge] = {} }
  IN  IF Len(fe) # 4 THEN NoEdge
      ELSE IF opp = {} THEN NoEdge
      ELSE fe[CHOOSE i \in opp : \A j \in opp : i <= j]

\* (edge.verts[0].co + edge.verts[1].co) / 2
EdgeCenter(edge) ==
  LET a == CHOOSE v \in EdgeVerts[edge] : TRUE
  IN  VHalf(VAdd(co(a), co(other_vert(edge, a))))

\* The value kept for one side of a quad edge: the other side's distance
\* when this side's is not > 0.
MirrorIfZero(own, other) == IF own > 0 THEN own ELSE other

get_quad_slide_range(edge, face1, face2) ==
  LET parallel1 == find_opposite_edge_in_face(edge, face1)
      parallel2 == find_opposite_edge_in_face(edge, face2)
      edge_center == EdgeCenter(edge)
      dist1 == IF parallel1 # NoEdge
               THEN Length(VSub(EdgeCenter(parallel1), edge_center)) ELSE 0
      dist2 == IF parallel2 # NoEdge
               THEN Length(VSub(EdgeCenter(parallel2), edge_center)) ELSE 0
  IN  IF parallel1 = NoEdge /\ parallel2 = NoEdge THEN None
      ELSE [ positive |-> RInt(MirrorIfZero(dist1, dist2)),
             negative |-> RInt(MirrorIfZero(dist2, dist1)) ]

\* The furthest face vertex, not on the edge, from the edge's midpoint.
MaxVertDist(edge, face) ==
  LET ds == { Length(VSub(co(v), EdgeCenter(edge))) :
                v \in SeqToSet(FaceVerts[face]) \ EdgeVerts[edge] }
  IN  CHOOSE m \in ds \cup {0} : \A d \in ds \cup {0} : d <= m

get_general_slide_range(edge, face1, face2) ==
  [ positive |-> RMul(RInt(MaxVertDist(edge, face1)), Rat(7, 10)),
    negative |-> RMul(RInt(MaxVertDist(edge, face2)), Rat(7, 10)) ]

\* Mutant: an edge without exactly two faces gets a zero range, not None.
get_edge_slide_range_zero_when_open(edge) ==
  LET lf == link_faces(edge)
  IN  IF Len(lf) # 2 THEN [ positive |-> Zero, negative |-> Zero ]
      ELSE IF Len(FaceEdges(lf[1])) = 4 /\ Len(FaceEdges(lf[2])) = 4
      THEN get_quad_slide_range(edge, lf[1], lf[2])
      ELSE get_general_slide_range(edge, lf[1], lf[2])

get_edge_slide_range(edge) ==
  LET lf == link_faces(edge)
  IN  IF Len(lf) # 2 THEN None
      ELSE IF Len(FaceEdges(lf[1])) = 4 /\ Len(FaceEdges(lf[2])) = 4
      THEN get_quad_slide_range(edge, lf[1], lf[2])
      ELSE get_general_slide_range(edge, lf[1], lf[2])

\* ---------------------------------------------------------- loop checks
\* is_edge_loop: every vertex the edges touch is touched by exactly two.
is_edge_loop(edges) ==
  LET es == SeqToSet(edges)
  IN  \A v \in UNION { EdgeVerts[e] : e \in es } :
        Cardinality({ e \in es : v \in EdgeVerts[e] }) = 2

\* build_loop_from_edge: the edges the walk may take next from the vertex.
Candidates(vert, all_edges, done) ==
  { e \in link_edges(vert) : e \in SeqToSet(all_edges) /\ e \notin done }

\* ------------------------------------------------- aggregation, factor
Methods == { "AVERAGE", "MINIMUM", "MAXIMUM", "FIRST" }

\* analyze_edge_loop, lines 170-176: the ranges of the edges that have one.
RECURSIVE CollectRanges(_)
CollectRanges(edges) ==
  IF edges = << >> THEN << >>
  ELSE LET dist_data == get_edge_slide_range(Head(edges))
       IN  IF dist_data # None
           THEN << dist_data >> \o CollectRanges(Tail(edges))
           ELSE CollectRanges(Tail(edges))

Positives(rs) == [ i \in 1..Len(rs) |-> rs[i].positive ]
Negatives(rs) == [ i \in 1..Len(rs) |-> rs[i].negative ]

\* Mutant: the MAXIMUM branch takes the minimum, as the branch above it.
AggregateValuesMaxAsMin(method, vals) ==
  CASE method = "AVERAGE" -> RDiv(RSum(vals), RInt(Len(vals)))
    [] method = "MINIMUM" -> RMinSeq(vals)
    [] method = "MAXIMUM" -> RMinSeq(vals)
    [] OTHER -> vals[1]

\* analyze_edge_loop, lines 182-201, on one list of values.
AggregateValues(method, vals) ==
  CASE method = "AVERAGE" -> RDiv(RSum(vals), RInt(Len(vals)))
    [] method = "MINIMUM" -> RMinSeq(vals)
    [] method = "MAXIMUM" -> RMaxSeq(vals)
    [] OTHER -> vals[1]

\* analyze_edge_loop, lines 167-209, for a resolved loop with a range.
Analysis(method, edges) ==
  LET rs == CollectRanges(edges)
      ws == [ i \in 1..Len(rs) |-> RAdd(rs[i].positive, rs[i].negative) ]
  IN  [ distances |-> [ positive |-> AggregateValues(method, Positives(rs)),
                        negative |-> AggregateValues(method, Negatives(rs)) ],
        avg_width |-> RDiv(RSum(ws), RInt(Len(ws))),
        edge_count |-> Len(edges) ]

\* distance_to_factor, lines 352-355
MaxDist(d, t) == IF RLeq(Zero, t) THEN d.positive ELSE d.negative

\* Mutant: only the upper bound is applied.
ClampUpperOnly(clamp, f) == IF clamp THEN RMin(One, f) ELSE f

\* distance_to_factor, lines 364-365
Clamp(clamp, f) == IF clamp THEN RMax(MinusOne, RMin(One, f)) ELSE f

\* What a division yields: Python raises ZeroDivisionError on a zero divisor.
ZeroDivisionError == << "ZeroDivisionError" >>
PyDiv(a, b) == IF b = Zero THEN ZeroDivisionError ELSE RDiv(a, b)

\* Mutant: the zero check of max_dist is missing.
distance_to_factor_unguarded(d, t, clamp) ==
  LET f == PyDiv(t, MaxDist(d, t))
  IN  IF f = ZeroDivisionError THEN f ELSE Clamp(clamp, f)

\* Mutant: the magnitude of the distance is divided, its sign is lost.
distance_to_factor_magnitude(d, t, clamp) ==
  LET max_dist == MaxDist(d, t)
  IN  IF max_dist = Zero THEN Zero
      ELSE Clamp(clamp, PyDiv(<< Abs(t[1]), t[2] >>, max_dist))

distance_to_factor(d, t, clamp) ==
  LET max_dist == MaxDist(d, t)
  IN  IF max_dist = Zero THEN Zero
      ELSE LET f == PyDiv(t, max_dist)
           IN  IF f = ZeroDivisionError THEN f ELSE Clamp(clamp, f)

\* --------------------------------------------------------------- runs
\* A property of the operator that the run has not read yet.  The dialog
\* sets the properties before execute runs and nothing changes them during
\* the run, so each is drawn where the code first reads it.
NotRead == << >>

Targets == { RInt(k) : k \in -MaxTarget..MaxTarget }

RECURSIVE InOrder(_)
\* The edges of a set in bm.edges order.
InOrder(es) ==
  IF es = {} THEN << >>
  ELSE LET e == CHOOSE x \in es : \A y \in es : x <= y
       IN  << e >> \o InOrder(es \ {e})

Selections ==
  { InOrder(es) : es \in { s \in SUBSET Edges : Cardinality(s) <= MaxSel } }

NoTrace ==
  /\ loops = << >>
  /\ processed = {}
  /\ seed = 0
  /\ loop = << >>
  /\ start_verts = << >>
  /\ direction = 0
  /\ current_vert = 0
  /\ chains = << >>

Init ==
  /\ geom \in Geometries
  /\ sel \in Selections
  /\ pc = "idle"
  /\ selected_edges = << >>
  /\ NoTrace
  /\ measurement_method = NotRead
  /\ slide_data = None
  /\ distance = NotRead
  /\ use_clamp = NotRead
  /\ factor = NotRead
  /\ transform_calls = << >>
  /\ mesh_moved = FALSE
  /\ reports = << >>
  /\ result = "RUNNING"

traceVars ==
  << loops, processed, seed, loop, start_verts, direction, current_vert,
     chains >>
propVars == << measurement_method, distance, use_clamp >>
hostVars == << geom, sel, transform_calls, mesh_moved >>

\* report a message and return {'CANCELLED'}
Cancel(msg) ==
  /\ reports' = Append(reports, msg)
  /\ result' = "CANCELLED"
  /\ pc' = "done"

\* The locals of find_edge_loops and build_loop_from_edge go out of scope.
EndTrace ==
  /\ loops' = << >>
  /\ processed' = {}
  /\ seed' = 0
  /\ loop' = << >>
  /\ start_verts' = << >>
  /\ direction' = 0
  /\ current_vert' = 0
  /\ chains' = << >>

\* invoke, lines 64-76: the dialog is shown only for a non-empty selection.
Invoke ==
  /\ pc = "idle"
  /\ IF sel = << >>
     THEN Cancel("WARNING: Please select an edge loop first")
     ELSE /\ pc' = "dialog"
          /\ UNCHANGED << reports, result >>
  /\ UNCHANGED << selected_edges, traceVars, propVars, hostVars, slide_data,
                  factor >>

\* Mutant: the return after the "No edges selected" warning is missing.
ExecuteFallsThrough ==
  /\ pc \in { "idle", "dialog" }
  /\ reports' = IF sel = << >>
                THEN Append(reports, "WARNING: No edges selected")
                ELSE reports
  /\ pc' = "analyze"
  /\ UNCHANGED << selected_edges, traceVars, propVars, hostVars, slide_data,
                  factor, result >>

\* execute, lines 108-124: called by the host directly or from the dialog.
Execute ==
  /\ pc \in { "idle", "dialog" }
  /\ IF sel = << >>
     THEN Cancel("WARNING: No edges selected")
     ELSE /\ pc' = "analyze"
          /\ UNCHANGED << reports, result >>
  /\ UNCHANGED << selected_edges, traceVars, propVars, hostVars, slide_data,
                  factor >>

\* analyze_edge_loop, lines 160-162: a selection that passes is_edge_loop is
\* analysed as it is, any other goes to find_edge_loops (lines 224-225).
AnalyzeLoopCheck ==
  /\ pc = "analyze"
  /\ IF is_edge_loop(sel)
     THEN /\ pc' = "collect"
          /\ selected_edges' = sel
          /\ UNCHANGED traceVars
     ELSE /\ pc' = "find"
          /\ seed' = 1
          /\ UNCHANGED << selected_edges, loops, processed, loop, start_verts,
                          direction, current_vert, chains >>
  /\ UNCHANGED << propVars, hostVars, slide_data, factor, reports, result >>

\* find_edge_loops, lines 227-229: an edge already processed is skipped.
FindSkip ==
  /\ pc = "find"
  /\ seed <= Len(sel)
  /\ sel[seed] \in processed
  /\ seed' = seed + 1
  /\ UNCHANGED << pc, selected_edges, loops, processed, loop, start_verts,
                  direction, current_vert, chains, propVars, hostVars,
                  slide_data, factor, reports, result >>

\* Mutant: the start edge is not added to processed.
AddSeedForgotten(done, edge) == done

\* processed.add(start_edge), line 240
AddSeed(done, edge) == done \cup { edge }

\* find_edge_loops line 231 and build_loop_from_edge lines 239-245: a chain
\* is started at the next unprocessed edge; the walk begins at verts[0].
FindSeed ==
  /\ pc = "find"
  /\ seed <= Len(sel)
  /\ sel[seed] \notin processed
  /\ \E v \in EdgeVerts[sel[seed]] :
       /\ start_verts' = << v, other_vert(sel[seed], v) >>
       /\ current_vert' = v
  /\ loop' = << sel[seed] >>
  /\ processed' = AddSeed(processed, sel[seed])
  /\ direction' = 0
  /\ pc' = "walk"
  /\ UNCHANGED << selected_edges, loops, seed, chains, propVars, hostVars,
                  slide_data, factor, reports, result >>

\* build_loop_from_edge, lines 247-263: the walk takes the first edge of
\* current_vert.link_edges that is selected and unprocessed.  The order of
\* link_edges is the host's, so any such edge may be the first.
WalkStep ==
  /\ pc = "walk"
  /\ \E next_edge \in Candidates(current_vert, sel, processed) :
       /\ loop' = Append(loop, next_edge)
       /\ processed' = processed \cup { next_edge }
       /\ current_vert' = other_vert(next_edge, current_vert)
  /\ UNCHANGED << pc, selected_edges, loops, seed, start_verts, direction,
                  chains, propVars, hostVars, slide_data, factor, reports,
                  result >>

\* build_loop_from_edge, lines 243-245 and 255-256: the walk from verts[0]
\* has ended, the walk from verts[1] begins.
WalkTurn ==
  /\ pc = "walk"
  /\ Candidates(current_vert, sel, processed) = {}
  /\ direction = 0
  /\ direction' = 1
  /\ current_vert' = start_verts[2]
  /\ UNCHANGED << pc, selected_edges, loops, processed, seed, loop,
                  start_verts, chains, propVars, hostVars, slide_data, factor,
                  reports, result >>

\* find_edge_loops, lines 232-233: only a chain of more than 2 edges is kept.
KeepLoop(ls, l) == IF l # << >> /\ Len(l) > 2 THEN Append(ls, l) ELSE ls

\* build_loop_from_edge, line 265, and find_edge_loops, lines 232-233: the
\* chain is returned and the for loop goes on.
WalkReturn ==
  /\ pc = "walk"
  /\ Candidates(current_vert, sel, processed) = {}
  /\ direction = 1
  /\ chains' = Append(chains, loop)
  /\ loops' = KeepLoop(loops, loop)
  /\ seed' = seed + 1
  /\ loop' = << >>
  /\ start_verts' = << >>
  /\ direction' = 0
  /\ current_vert' = 0
  /\ pc' = "find"
  /\ UNCHANGED << selected_edges, processed, propVars, hostVars, slide_data,
                  factor, reports, result >>

\* find_edge_loops line 235, analyze_edge_loop lines 163-164 and execute
\* lines 126-128: no loop was found.
FindNone ==
  /\ pc = "find"
  /\ seed > Len(sel)
  /\ loops = << >>
  /\ EndTrace
  /\ Cancel("WARNING: Cannot analyze selected edge loop")
  /\ UNCHANGED << selected_edges, propVars, hostVars, slide_data, factor >>

\* find_edge_loops line 235 and analyze_edge_loop line 165: the first loop
\* found is analysed.
FindLoop ==
  /\ pc = "find"
  /\ seed > Len(sel)
  /\ loops # << >>
  /\ selected_edges' = loops[1]
  /\ EndTrace
  /\ pc' = "collect"
  /\ UNCHANGED << propVars, hostVars, slide_data, factor, reports, result >>

\* analyze_edge_loop lines 167-179 and execute lines 126-128: no edge of the
\* loop has a range.
CollectNone ==
  /\ pc = "collect"
  /\ CollectRanges(selected_edges) = << >>
  /\ Cancel("WARNING: Cannot analyze selected edge loop")
  /\ UNCHANGED << selected_edges, traceVars, propVars, hostVars, slide_data,
                  factor >>

\* analyze_edge_loop lines 167-209: the ranges are aggregated.
Aggregate ==
  /\ pc = "collect"
  /\ CollectRanges(selected_edges) # << >>
  /\ \E m \in Methods :
       /\ measurement_method' = m
       /\ slide_data' = Analysis(m, selected_edges)
  /\ pc' = "resolve"
  /\ UNCHANGED << selected_edges, traceVars, distance, use_clamp, hostVars,
                  factor, reports, result >>

\* execute lines 121 and 131-135: the factor is computed and reported, for
\* a requested distance among ts.
ResolveWith(ts) ==
  /\ pc = "resolve"
  /\ \E t \in ts, c \in BOOLEAN :
       /\ distance' = t
       /\ use_clamp' = c
       /\ factor' = distance_to_factor(slide_data.distances, t, c)
  /\ reports' = Append(reports, "INFO: Loop width | Sliding | Factor")
  /\ pc' = "transform"
  /\ UNCHANGED << selected_edges, traceVars, measurement_method, hostVars,
                  slide_data, result >>

Resolve == ResolveWith(Targets)

\* execute lines 138-148 and 154: the native edge slide returns.
TransformOk ==
  /\ pc = "transform"
  /\ transform_calls' = Append(transform_calls, factor)
  /\ mesh_moved' = TRUE
  /\ result' = "FINISHED"
  /\ pc' = "done"
  /\ UNCHANGED << geom, sel, selected_edges, traceVars, propVars, slide_data,
                  factor, reports >>

\* execute lines 138-152: the native edge slide raises.
TransformFail ==
  /\ pc = "transform"
  /\ transform_calls' = Append(transform_calls, factor)
  /\ Cancel("ERROR: Edge slide failed")
  /\ UNCHANGED << geom, sel, mesh_moved, selected_edges, traceVars, propVars,
                  slide_data, factor >>

Next ==
  \/ Invoke
  \/ Execute
  \/ AnalyzeLoopCheck
  \/ FindSkip
  \/ FindSeed
  \/ WalkStep
  \/ WalkTurn
  \/ WalkReturn
  \/ FindNone
  \/ FindLoop
  \/ CollectNone
  \/ Aggregate
  \/ Resolve
  \/ TransformOk
  \/ TransformFail

Spec == Init /\ [][Next]_vars

\* ------------------------------------------- distance_to_factor alone
(* SpecFactor applies distance_to_factor to every aggregated pair with     *)
(* components n/d >= 0 and every requested distance of the bounded sets    *)
(* below: the run starts where execute holds the analysis' result.         *)
NonNegRationals == { Rat(n, d) : n \in 0..MaxNum, d \in 1..MaxDen }
FactorTargets == { Rat(n, d) : n \in -MaxNum..MaxNum, d \in 1..MaxDen }

InitFactor ==
  /\ geom = "regular"
  /\ sel = << 8 >>
  /\ pc = "resolve"
  /\ selected_edges = << 8 >>
  /\ NoTrace
  /\ measurement_method \in Methods
  /\ \E p \in NonNegRationals, n \in NonNegRationals :
       slide_data = [ distances |-> [ positive |-> p, negative |-> n ],
                      avg_width |-> RAdd(p, n),
                      edge_count |-> 1 ]
  /\ distance = NotRead
  /\ use_clamp = NotRead
  /\ factor = NotRead
  /\ transform_calls = << >>
  /\ mesh_moved = FALSE
  /\ reports = << >>
  /\ result = "RUNNING"

ResolveFactor == ResolveWith(FactorTargets)

NextFactor == ResolveFactor \/ TransformOk \/ TransformFail

SpecFactor == InitFactor /\ [][NextFactor]_vars

\* ------------------------------------------------------------- claims
Sign(r) == IF r[1] > 0 THEN 1 ELSE IF r[1] < 0 THEN -1 ELSE 0

RECURSIVE Flatten(_)
Flatten(ss) == IF ss = << >> THEN << >> ELSE Head(ss) \o Flatten(Tail(ss))

NoDuplicates(s) == \A i, j \in 1..Len(s) : s[i] = s[j] => i = j

\* Three distinct edges e1, e2, e3 of the set that can be walked one after
\* the other: e1 and e2 meet in a vertex, e2 and e3 in its other vertex.
HasChainOfThree(es) ==
  \E e1, e2, e3 \in es :
    /\ e1 # e2 /\ e2 # e3 /\ e1 # e3
    /\ \E a \in EdgeVerts[e1] \cap EdgeVerts[e2],
          b \in EdgeVerts[e2] \cap EdgeVerts[e3] : a # b

TracingEnded == pc = "find" /\ seed > Len(sel)

\* C1: for a selection that fails the degree-2 validation, loop repair
\* returns a chain of more than 2 edges whenever the selection holds a
\* chain of more than 2 connected edges, and fails only when it holds none.
C1_RepairFindsChain ==
  TracingEnded =>
    /\ HasChainOfThree(SeqToSet(sel)) => loops # << >>
    /\ loops # << >> => Len(loops[1]) > 2

CancelledWith(msg) ==
  /\ result = "CANCELLED"
  /\ reports = << msg >>
  /\ transform_calls = << >>
  /\ ~mesh_moved

\* C2: the native transform is called at most once, only after a non-empty
\* selection was analysed successfully, and nothing follows the call; with
\* no selected edge or no valid loop the run ends CANCELLED with one
\* warning, without a call and without a change to the mesh.
C2_TransformLastAndOnlyOnSuccess ==
  /\ Len(transform_calls) <= 1
  /\ mesh_moved => transform_calls # << >>
  /\ transform_calls # << >> =>
       /\ sel # << >>
       /\ slide_data # None
       /\ transform_calls = << factor >>
       /\ pc = "done"
       /\ ~ENABLED Next
  /\ (pc = "done" /\ sel = << >>) =>
       \/ CancelledWith("WARNING: No edges selected")
       \/ CancelledWith("WARNING: Please select an edge loop first")
  /\ (pc = "done" /\ sel # << >> /\ slide_data = None) =>
       CancelledWith("WARNING: Cannot analyze selected edge loop")

C2_Witness_NoValidLoop ==
  /\ pc = "done"
  /\ sel # << >>
  /\ slide_data = None
  /\ result = "CANCELLED"
  /\ transform_calls = << >>

Resolved == pc \in { "transform", "done" } /\ slide_data # None

\* The aggregated distance of the requested direction, from the claim's words.
RequestedMax ==
  IF distance[1] >= 0 THEN slide_data.distances.positive
  ELSE slide_data.distances.negative

\* C3: with clamp enabled the factor lies in [-1, 1]; with clamp disabled
\* and a nonzero distance in the requested direction it is exactly
\* t / maxDist.
C3_ClampedInUnitIntervalElseExactQuotient ==
  Resolved =>
    /\ Len(factor) = 2 /\ factor[2] > 0
    /\ use_clamp => RLeq(MinusOne, factor) /\ RLeq(factor, One)
    /\ (~use_clamp /\ RequestedMax # Zero) =>
         factor[1] * RequestedMax[1] * distance[2]
           = distance[1] * RequestedMax[2] * factor[2]

C3_Witness_UnclampedBeyondOne ==
  /\ Resolved
  /\ ~use_clamp
  /\ slide_data.distances = [ positive |-> One, negative |-> One ]
  /\ distance = RInt(2)
  /\ factor = RInt(2)

\* C4: with clamp enabled, a nonzero target and a nonzero distance in the
\* requested direction, the factor has the sign of the target; a zero target
\* gives factor 0 whatever the clamp setting.
C4_FactorKeepsSignOfTarget ==
  Resolved =>
    /\ (use_clamp /\ distance # Zero /\ RequestedMax # Zero) =>
         Sign(factor) = Sign(distance)
    /\ distance = Zero => factor = Zero

C4_Witness_NegativeTargetClamped ==
  /\ Resolved
  /\ use_clamp
  /\ Sign(distance) = -1
  /\ RequestedMax # Zero
  /\ factor = MinusOne

\* C5: when the aggregated distance of the requested direction is zero the
\* factor is 0, no division fault occurs, and the run goes on: the native
\* transform is called with 0 and the run ends FINISHED unless the transform
\* itself fails.
C5_DegenerateRangeProceeds ==
  (Resolved /\ RequestedMax = Zero) =>
    /\ factor = Zero
    /\ pc = "transform" =>
         /\ result = "RUNNING"
         /\ reports = << "INFO: Loop width | Sliding | Factor" >>
    /\ pc = "done" =>
         /\ transform_calls = << Zero >>
         /\ \/ result = "FINISHED" /\ Len(reports) = 1
            \/ /\ result = "CANCELLED"
               /\ reports[Len(reports)] = "ERROR: Edge slide failed"

C5_Witness_DegenerateFinished ==
  /\ pc = "done"
  /\ slide_data # None
  /\ distance # Zero
  /\ RequestedMax = Zero
  /\ transform_calls = << Zero >>
  /\ result = "FINISHED"

NoEdgeHasTwoFaces == sel # << >> /\ \A e \in SeqToSet(sel) : Len(link_faces(e)) # 2

\* C6: for a non-empty selection none of whose edges has exactly two
\* adjacent faces, no edge yields a range, the analysis returns None and the
\* run aborts with the warning; the transform is never called.
C6_NoTwoFaceEdgeNoValidLoop ==
  NoEdgeHasTwoFaces =>
    /\ slide_data = None
    /\ pc \notin { "resolve", "transform" }
    /\ pc = "collect" =>
         \A e \in SeqToSet(selected_edges) : get_edge_slide_range(e) = None
    /\ pc = "done" =>
         CancelledWith("WARNING: Cannot analyze selected edge loop")

C6_Witness_LooseEdgeAborts ==
  /\ pc = "done"
  /\ Len(sel) = 1
  /\ link_faces(sel[1]) = << >>
  /\ result = "CANCELLED"
  /\ reports = << "WARNING: Cannot analyze selected edge loop" >>

BetweenTwoQuads(e) ==
  /\ Len(link_faces(e)) = 2
  /\ \A i \in 1..2 : find_opposite_edge_in_face(e, link_faces(e)[i]) # NoEdge

\* The distance between the edge's midpoint and the midpoint of its opposite
\* edge in its i-th face.
OppositeDistance(e, i) ==
  Length(VSub(EdgeCenter(find_opposite_edge_in_face(e, link_faces(e)[i])),
              EdgeCenter(e)))

\* C7: the range of an edge between two quads is (distance to the opposite
\* edge of the first face, distance to the opposite edge of the second
\* face), for every value of those distances, 0 included.
C7_QuadRangeIsOppositeMidpointDistance ==
  pc = "resolve" =>
    \A e \in SeqToSet(selected_edges) :
      BetweenTwoQuads(e) =>
        get_edge_slide_range(e) =
          [ positive |-> RInt(OppositeDistance(e, 1)),
            negative |-> RInt(OppositeDistance(e, 2)) ]

\* The pairs the claim aggregates: those of the loop's edges with exactly two
\* adjacent faces and a range, in loop order.
CollectedPairs ==
  LET es == SelectSeq(selected_edges,
                      LAMBDA e : /\ Len(link_faces(e)) = 2
                                 /\ get_edge_slide_range(e) # None)
  IN  [ i \in 1..Len(es) |-> get_edge_slide_range(es[i]) ]

IsStatisticOf(method, v, vals) ==
  CASE method = "AVERAGE" ->
         v[1] * RSum(vals)[2] * Len(vals) = RSum(vals)[1] * v[2]
    [] method = "MINIMUM" ->
         v \in SeqToSet(vals) /\ \A w \in SeqToSet(vals) : RLeq(v, w)
    [] method = "MAXIMUM" ->
         v \in SeqToSet(vals) /\ \A w \in SeqToSet(vals) : RLeq(w, v)
    [] method = "FIRST" -> v = vals[1]

\* C8: when the analysis has succeeded the aggregated pair is, component-wise,
\* the mean / minimum / maximum / first of the collected pairs; when all
\* collected pairs are one pair (w, w), it is (w, w).
C8_AggregateIsStatisticOfCollectedPairs ==
  pc = "resolve" =>
    LET ps == CollectedPairs
        d == slide_data.distances
    IN  /\ ps # << >>
        /\ IsStatisticOf(measurement_method, d.positive, Positives(ps))
        /\ IsStatisticOf(measurement_method, d.negative, Negatives(ps))
        /\ (\A i \in 1..Len(ps) : ps[i] = ps[1] /\ ps[1].positive = ps[1].negative)
             => d = ps[1]

C8_Witness_UniformAverageHalf ==
  /\ pc = "transform"
  /\ measurement_method = "AVERAGE"
  /\ distance = RInt(2)
  /\ use_clamp = TRUE
  /\ factor = Rat(1, 2)
  /\ Len(CollectedPairs) >= 2
  /\ \A i \in 1..Len(CollectedPairs) :
       CollectedPairs[i] = [ positive |-> RInt(4), negative |-> RInt(4) ]

\* C9: with method FIRST the pair used is the slide range of the first
\* selected edge.
C9_FirstUsesFirstSelectedEdge ==
  (slide_data # None /\ measurement_method = "FIRST") =>
    slide_data.distances = get_edge_slide_range(sel[1])

Tracing == pc \in { "find", "walk" }
Traced == Flatten(chains) \o loop

TraceState ==
  Tracing =>
    /\ NoDuplicates(Traced)
    /\ SeqToSet(Traced) \subseteq SeqToSet(sel)
    /\ SeqToSet(Traced) = processed
    /\ Len(loop) <= Len(sel)
    /\ TracingEnded => SeqToSet(Traced) = SeqToSet(sel)

\* C10: during loop tracing no edge occurs twice across the chains built so
\* far, every chain edge is selected and processed, a walk never takes more
\* steps than there are selected edges, the processed set only grows, and
\* when tracing ends the chains partition the selection.
C10_ChainsDisjointProcessedGrows ==
  /\ []TraceState
  /\ [][(Tracing /\ Tracing') => processed \subseteq processed']_vars

C10_Witness_TwoChainsTraced ==
  /\ TracingEnded
  /\ Len(chains) >= 2
  /\ \E i \in 1..Len(chains) : Len(chains[i]) >= 3

====
